---- MODULE Spec2Model ----
(***************************************************************************)
(* Model of the VoltageCurrentGraph React component: the ordinary least    *)
(* squares fit (calculateLinearRegression), the best-fit segment           *)
(* (generateBestFitLine) and the render / effect cycle that stores the     *)
(* fit in component state.                                                 *)
(*                                                                         *)
(* The component computes with JavaScript Numbers, i.e. IEEE-754 binary64  *)
(* values with round-to-nearest-even.  TLC integers are 32 bits wide, so   *)
(* the 53-bit significands are kept as little-endian sequences of 15-bit   *)
(* limbs (natural numbers without leading zero limbs, zero being <<>>).    *)
(***************************************************************************)
EXTENDS Integers, Sequences, FiniteSets, TLC

VARIABLES
  data,         \* the array of points the component body builds
  gradient,     \* useState: null or the stored slope
  intercept,    \* useState: null or the stored intercept
  rSquared,     \* useState: null or the stored R squared
  updates,      \* state updates queued by the setters, in call order
  altPending,   \* the fiber's alternate still carries update lanes
  pc,           \* what is scheduled next
  renders,      \* runs of the component body so far
  dataRef,      \* identity of the data array built by the last render
  effectDeps,   \* identity of the dependency the effect last ran with
  calls,        \* invocations of calculateLinearRegression so far
  fit,          \* what calculateLinearRegression last returned
  bestFitLine,  \* what generateBestFitLine last returned
  cards         \* what the three cards last showed

vars == <<data, gradient, intercept, rSquared, updates, altPending, pc,
          renders, dataRef, effectDeps, calls, fit, bestFitLine, cards>>

(***************************************************************************)
(* Natural numbers of arbitrary size (limbs of LimbBits bits).             *)
(***************************************************************************)
BASE == 32768

LimbBits == 15

Max(a, b) == IF a >= b THEN a ELSE b

Min(a, b) == IF a <= b THEN a ELSE b

RECURSIVE Pow2(_)
Pow2(k) == IF k = 0 THEN 1 ELSE 2 * Pow2(k - 1)

Limb(a, i) == IF i <= Len(a) THEN a[i] ELSE 0

RECURSIVE BNorm(_)
BNorm(a) ==
  IF a = <<>> THEN <<>>
  ELSE IF a[Len(a)] = 0 THEN BNorm(SubSeq(a, 1, Len(a) - 1))
  ELSE a

RECURSIVE BAddR(_, _, _, _)
BAddR(a, b, i, c) ==
  IF i > Len(a) /\ i > Len(b)
  THEN IF c = 0 THEN <<>> ELSE <<c>>
  ELSE LET s == Limb(a, i) + Limb(b, i) + c
       IN  <<s % BASE>> \o BAddR(a, b, i + 1, s \div BASE)

BAdd(a, b) == BAddR(a, b, 1, 0)

RECURSIVE BSubR(_, _, _, _)
BSubR(a, b, i, br) ==
  IF i > Len(a) THEN <<>>
  ELSE LET d == a[i] - Limb(b, i) - br
       IN  <<IF d < 0 THEN d + BASE ELSE d>>
             \o BSubR(a, b, i + 1, IF d < 0 THEN 1 ELSE 0)

\* a - b for a >= b
BSub(a, b) == BNorm(BSubR(a, b, 1, 0))

RECURSIVE BCmpR(_, _, _)
BCmpR(a, b, i) ==
  IF i = 0 THEN 0
  ELSE IF a[i] > b[i] THEN 1
  ELSE IF a[i] < b[i] THEN -1
  ELSE BCmpR(a, b, i - 1)

\* -1, 0 or 1 as a < b, a = b or a > b
BCmp(a, b) ==
  IF Len(a) > Len(b) THEN 1
  ELSE IF Len(a) < Len(b) THEN -1
  ELSE BCmpR(a, b, Len(a))

RECURSIVE BMulLimbR(_, _, _, _)
BMulLimbR(a, d, i, c) ==
  IF i > Len(a)
  THEN IF c = 0 THEN <<>> ELSE <<c>>
  ELSE LET p == a[i] * d + c
       IN  <<p % BASE>> \o BMulLimbR(a, d, i + 1, p \div BASE)

\* a * d for a limb d
BMulLimb(a, d) == IF d = 0 THEN <<>> ELSE BMulLimbR(a, d, 1, 0)

RECURSIVE BMul(_, _)
BMul(a, b) ==
  IF a = <<>> \/ b = <<>> THEN <<>>
  ELSE LET rest == BMul(Tail(a), b)
       IN  BAdd(BMulLimb(b, Head(a)),
                IF rest = <<>> THEN <<>> ELSE <<0>> \o rest)

Zeros(n) == [i \in 1..n |-> 0]

\* a * 2^k
BShl(a, k) ==
  IF a = <<>> THEN <<>>
  ELSE Zeros(k \div LimbBits) \o BMulLimb(a, Pow2(k % LimbBits))

\* floor(a / 2^k)
BShr(a, k) ==
  LET w == k \div LimbBits
      p == Pow2(k % LimbBits)
      n == Len(a) - w
  IN  IF n <= 0 THEN <<>>
      ELSE BNorm([i \in 1..n |->
                   (a[i + w] \div p) + (Limb(a, i + w + 1) % p) * (BASE \div p)])

RECURSIVE SmallBitLen(_)
SmallBitLen(d) == IF d = 0 THEN 0 ELSE 1 + SmallBitLen(d \div 2)

BitLen(a) ==
  IF a = <<>> THEN 0
  ELSE LimbBits * (Len(a) - 1) + SmallBitLen(a[Len(a)])

BOdd(a) == a # <<>> /\ a[1] % 2 = 1

RECURSIVE BFromNat(_)
BFromNat(n) == IF n = 0 THEN <<>> ELSE <<n % BASE>> \o BFromNat(n \div BASE)

(***************************************************************************)
(* JavaScript Numbers: IEEE-754 binary64.  A finite value is               *)
(* (-1)^s * m * 2^e with m < 2^53, kept canonical (m has 53 bits unless    *)
(* e = ExpMin, the subnormal range; zero has m = <<>>, e = 0), so that     *)
(* equality of records is Object.is: NaN equals NaN, +0 differs from -0.   *)
(***************************************************************************)
MantBits == 53

ExpMin == -1074

ExpTop == 1024

NaN == [k |-> "nan", s |-> 0, m |-> <<>>, e |-> 0]

Inf(s) == [k |-> "inf", s |-> s, m |-> <<>>, e |-> 0]

Zero(s) == [k |-> "fin", s |-> s, m |-> <<>>, e |-> 0]

Pack(s, m, e) ==
  IF m = <<>> THEN Zero(s)
  ELSE IF BitLen(m) + e > ExpTop THEN Inf(s)
  ELSE [k |-> "fin", s |-> s, m |-> m, e |-> e]

\* Round, once the significand has been cut to q and q' is q or q + 1: a
\* carry out of the top bit halves the significand
RoundCarry(s, m1, E) ==
  IF BitLen(m1) > MantBits THEN Pack(s, BShr(m1, 1), E + 1)
  ELSE Pack(s, m1, E)

\* Round, when k > 0 low bits are cut off M: q is what is left and c
\* compares what is cut with half a unit of q
RoundUp(s, q, E, sticky, c) ==
  RoundCarry(s,
             IF c > 0 \/ (c = 0 /\ (sticky \/ BOdd(q)))
             THEN BAdd(q, <<1>>) ELSE q,
             E)

RoundCut(s, M, E, sticky, k, q) ==
  RoundUp(s, q, E + k, sticky,
          BCmp(BSub(M, BShl(q, k)), BShl(<<1>>, k - 1)))

RoundBits(s, M, E, sticky, L, k) ==
  IF k <= 0
  THEN Pack(s, BShl(M, Min(MantBits - L, E - ExpMin)),
            E - Min(MantBits - L, E - ExpMin))
  ELSE RoundCut(s, M, E, sticky, k, BShr(M, k))

RoundLen(s, M, E, sticky, L) ==
  RoundBits(s, M, E, sticky, L, Max(L - MantBits, ExpMin - E))

\* The Number nearest to (-1)^s * (M + f) * 2^E, where 0 < f < 1 if sticky
\* and f = 0 otherwise; ties go to the even significand.
Round(s, M, E, sticky) ==
  IF M = <<>> /\ ~sticky THEN Zero(s)
  ELSE RoundLen(s, M, E, sticky, BitLen(M))

IsNaN(a) == a.k = "nan"

IsFinite(a) == a.k = "fin"

IsZero(a) == a.k = "fin" /\ a.m = <<>>

Xor(s, t) == IF s = t THEN 0 ELSE 1

FNeg(a) == IF a.k = "nan" THEN a ELSE [a EXCEPT !.s = 1 - a.s]

\* Beyond this exponent distance the smaller addend only acts as a sticky bit
FarApart == 64

\* hi + lo for finite non-zero hi, lo with hi.e >= lo.e; A is hi.m aligned
\* to the exponent of lo and c compares A with lo.m
FAddNear(hi, lo, A, c) ==
  IF hi.s # lo.s /\ c = 0 THEN Zero(0)
  ELSE Round(IF hi.s = lo.s \/ c > 0 THEN hi.s ELSE lo.s,
             IF hi.s = lo.s THEN BAdd(A, lo.m)
             ELSE IF c > 0 THEN BSub(A, lo.m)
             ELSE BSub(lo.m, A),
             lo.e, FALSE)

FAddAligned(hi, lo, A) == FAddNear(hi, lo, A, BCmp(A, lo.m))

FAddOrdered(hi, lo) ==
  IF hi.e - lo.e > FarApart
  THEN Round(hi.s,
             IF hi.s = lo.s THEN BShl(hi.m, 2)
             ELSE BSub(BShl(hi.m, 2), <<1>>),
             hi.e - 2, TRUE)
  ELSE FAddAligned(hi, lo, BShl(hi.m, hi.e - lo.e))

FAddFin(a, b) ==
  FAddOrdered(IF a.e >= b.e THEN a ELSE b, IF a.e >= b.e THEN b ELSE a)

\* a + b
FAdd(a, b) ==
  IF IsNaN(a) \/ IsNaN(b) THEN NaN
  ELSE IF a.k = "inf"
  THEN IF b.k = "inf" /\ b.s # a.s THEN NaN ELSE a
  ELSE IF b.k = "inf" THEN b
  ELSE IF IsZero(a) /\ IsZero(b) THEN Zero(IF a.s = b.s THEN a.s ELSE 0)
  ELSE IF IsZero(a) THEN b
  ELSE IF IsZero(b) THEN a
  ELSE FAddFin(a, b)

\* a - b
FSub(a, b) == FAdd(a, FNeg(b))

\* a * b
FMul(a, b) ==
  IF IsNaN(a) \/ IsNaN(b) THEN NaN
  ELSE IF a.k = "inf" \/ b.k = "inf"
  THEN IF IsZero(a) \/ IsZero(b) THEN NaN ELSE Inf(Xor(a.s, b.s))
  ELSE IF IsZero(a) \/ IsZero(b) THEN Zero(Xor(a.s, b.s))
  ELSE Round(Xor(a.s, b.s), BMul(a.m, b.m), a.e + b.e, FALSE)

\* Limbs of quotient produced by the division after its integer bit: more
\* bits than a significand holds, so that Round sees the bits it rounds by
QuotLimbs == 4

\* The largest limb g + t (t < 2^(b+1)) with (g + t) * d <= R
RECURSIVE QDigit(_, _, _, _)
QDigit(R, d, g, b) ==
  IF b < 0 THEN g
  ELSE LET t == g + Pow2(b)
       IN  IF BCmp(BMulLimb(d, t), R) <= 0
           THEN QDigit(R, d, t, b - 1)
           ELSE QDigit(R, d, g, b - 1)

\* <<floor(n * BASE^j / d), remainder>> for n < 2 * d
RECURSIVE DivLimbs(_, _, _)
DivLimbs(n, d, j) ==
  IF j = 0
  THEN IF BCmp(n, d) >= 0 THEN <<(<<1>>), BSub(n, d)>> ELSE <<(<<>>), n>>
  ELSE LET p == DivLimbs(n, d, j - 1)
           R == IF p[2] = <<>> THEN <<>> ELSE <<0>> \o p[2]
           g == QDigit(R, d, 0, LimbBits - 1)
       IN  <<IF p[1] = <<>> /\ g = 0 THEN <<>> ELSE <<g>> \o p[1],
             BSub(R, BMulLimb(d, g))>>

\* The quotient of DivLimbs and whether a remainder is left, rounded
FDivRound(s, E, qr) == Round(s, qr[1], E, qr[2] # <<>>)

\* a / b with the significands shifted up by ta and tb to MantBits bits
FDivShifted(a, b, ta, tb) ==
  FDivRound(Xor(a.s, b.s),
            (a.e - ta) - (b.e - tb) - QuotLimbs * LimbBits,
            DivLimbs(BShl(a.m, ta), BShl(b.m, tb), QuotLimbs))

FDivFin(a, b) ==
  FDivShifted(a, b, MantBits - BitLen(a.m), MantBits - BitLen(b.m))

\* a / b
FDiv(a, b) ==
  IF IsNaN(a) \/ IsNaN(b) THEN NaN
  ELSE IF a.k = "inf"
  THEN IF b.k = "inf" THEN NaN ELSE Inf(Xor(a.s, b.s))
  ELSE IF b.k = "inf" THEN Zero(Xor(a.s, b.s))
  ELSE IF IsZero(b)
  THEN IF IsZero(a) THEN NaN ELSE Inf(Xor(a.s, b.s))
  ELSE IF IsZero(a) THEN Zero(Xor(a.s, b.s))
  ELSE FDivFin(a, b)

\* The Number of an integer literal or of an array length
FromInt(n) ==
  Round(IF n >= 0 THEN 0 ELSE 1, BFromNat(IF n >= 0 THEN n ELSE -n), 0, FALSE)

\* The Number of the decimal literal n / 10^k: n and 10^k are exact Numbers
\* and the division rounds their quotient to the nearest one, as the parser
\* rounds the literal.
RECURSIVE Pow10(_)
Pow10(k) == IF k = 0 THEN 1 ELSE 10 * Pow10(k - 1)

Dec(n, k) == FDiv(FromInt(n), FromInt(Pow10(k)))

MagLt(a, b) ==
  IF a.k = "inf" THEN FALSE
  ELSE IF b.k = "inf" THEN TRUE
  ELSE IF IsZero(b) THEN FALSE
  ELSE IF IsZero(a) THEN TRUE
  ELSE a.e < b.e \/ (a.e = b.e /\ BCmp(a.m, b.m) < 0)

\* a < b (false when either is NaN; -0 and +0 are equal)
FLt(a, b) ==
  IF IsNaN(a) \/ IsNaN(b) THEN FALSE
  ELSE IF IsZero(a) /\ IsZero(b) THEN FALSE
  ELSE IF a.s # b.s THEN a.s = 1
  ELSE IF a.s = 0 THEN MagLt(a, b)
  ELSE MagLt(b, a)

\* The digits of a.toFixed(f) for a finite a: the integer nearest to
\* |a| * 10^f, the larger one of two equally near, with the sign of a
ToFixedDigits(a, f) ==
  LET M == BMul(a.m, BFromNat(Pow10(f)))
  IN  [s |-> a.s,
       n |-> IF a.e >= 0 THEN BShl(M, a.e)
             ELSE BShr(BAdd(M, BShl(<<1>>, -a.e - 1)), -a.e)]

\* 10^21 as a Number: from there on toFixed answers with Number::toString
TenTo21 ==
  Round(0, BMul(BFromNat(Pow10(9)), BMul(BFromNat(Pow10(9)), BFromNat(1000))),
        0, FALSE)

\* The text of a.toFixed(f).  "fixed": the sign s and the digits n of a
\* numeral with f decimals (n counts units of 10^-f); -0 has no sign, a
\* negative value that rounds to zero keeps it.  "NaN" and "Infinity" (with
\* sign s): the text of a non-finite Number.  "toString": the exponential
\* text of a finite Number not below 10^21 in magnitude, digits not modelled.
ToFixedText(kind, s, n) == [kind |-> kind, s |-> s, n |-> n]

ToFixed(a, f) ==
  IF IsNaN(a) THEN ToFixedText("NaN", 0, <<>>)
  ELSE IF a.k = "inf" THEN ToFixedText("Infinity", a.s, <<>>)
  ELSE IF IsZero(a) THEN ToFixedText("fixed", 0, <<>>)
  ELSE IF ~MagLt(a, TenTo21) THEN ToFixedText("toString", a.s, <<>>)
  ELSE ToFixedText("fixed", a.s, ToFixedDigits(a, f).n)

\* Math.pow(v, 2): the square of v, rounded once
MathPow2(v) == FMul(v, v)

\* Math.min / Math.max of two Numbers: NaN wins, and -0 is below +0
MathMin2(a, b) ==
  IF IsNaN(a) \/ IsNaN(b) THEN NaN
  ELSE IF FLt(a, b) THEN a
  ELSE IF FLt(b, a) THEN b
  ELSE IF a.s = 1 THEN a ELSE b

MathMax2(a, b) ==
  IF IsNaN(a) \/ IsNaN(b) THEN NaN
  ELSE IF FLt(a, b) THEN b
  ELSE IF FLt(b, a) THEN a
  ELSE IF a.s = 0 THEN a ELSE b

\* Math.min(...xs) and Math.max(...xs); Infinity and -Infinity for no argument
RECURSIVE MathMin(_)
MathMin(xs) ==
  IF xs = <<>> THEN Inf(0)
  ELSE MathMin2(MathMin(SubSeq(xs, 1, Len(xs) - 1)), xs[Len(xs)])

RECURSIVE MathMax(_)
MathMax(xs) ==
  IF xs = <<>> THEN Inf(1)
  ELSE MathMax2(MathMax(SubSeq(xs, 1, Len(xs) - 1)), xs[Len(xs)])

(***************************************************************************)
(* The data of the component.                                              *)
(***************************************************************************)
\* null, shaped as the Numbers are so that the two compare
Null == [k |-> "null", s |-> 0, m |-> <<>>, e |-> 0]

Point(v, c) == [voltage |-> v, current |-> c]

\* The table of the component: the voltages in tenths and the currents in
\* hundredths, as the literals 0.0 .. 4.0 and 0 .. 95.66 write them
TableTenths == <<0, 5, 10, 15, 20, 25, 30, 35, 40>>

TableHundredths == <<0, 933, 2300, 2466, 4766, 6066, 7166, 8500, 9566>>

TableData ==
  [i \in 1..9 |-> Point(Dec(TableTenths[i], 1), Dec(TableHundredths[i], 2))]

(***************************************************************************)
(* calculateLinearRegression                                               *)
(***************************************************************************)
\* Mutant of Sums: the loop starts at the second point
RECURSIVE SumsSkipFirst(_, _)
SumsSkipFirst(pts, i) ==
  IF i <= 1
  THEN [sumX |-> Zero(0), sumY |-> Zero(0), sumXY |-> Zero(0),
        sumXX |-> Zero(0), sumYY |-> Zero(0)]
  ELSE LET p     == SumsSkipFirst(pts, i - 1)
           point == pts[i]
       IN  [sumX  |-> FAdd(p.sumX, point.voltage),
            sumY  |-> FAdd(p.sumY, point.current),
            sumXY |-> FAdd(p.sumXY, FMul(point.voltage, point.current)),
            sumXX |-> FAdd(p.sumXX, FMul(point.voltage, point.voltage)),
            sumYY |-> FAdd(p.sumYY, FMul(point.current, point.current))]

\* The accumulators after the first i points of the first loop
RECURSIVE Sums(_, _)
Sums(pts, i) ==
  IF i = 0
  THEN [sumX |-> Zero(0), sumY |-> Zero(0), sumXY |-> Zero(0),
        sumXX |-> Zero(0), sumYY |-> Zero(0)]
  ELSE LET p     == Sums(pts, i - 1)
           point == pts[i]
       IN  [sumX  |-> FAdd(p.sumX, point.voltage),
            sumY  |-> FAdd(p.sumY, point.current),
            sumXY |-> FAdd(p.sumXY, FMul(point.voltage, point.current)),
            sumXX |-> FAdd(p.sumXX, FMul(point.voltage, point.voltage)),
            sumYY |-> FAdd(p.sumYY, FMul(point.current, point.current))]

\* The accumulators after the first i points of the second loop
RECURSIVE Variation(_, _, _, _, _)
Variation(pts, slope, icpt, meanY, i) ==
  IF i = 0
  THEN [totalVariation |-> Zero(0), explainedVariation |-> Zero(0)]
  ELSE LET p          == Variation(pts, slope, icpt, meanY, i - 1)
           point      == pts[i]
           predictedY == FAdd(FMul(slope, point.voltage), icpt)
       IN  [totalVariation |->
              FAdd(p.totalVariation, MathPow2(FSub(point.current, meanY))),
            explainedVariation |->
              FAdd(p.explainedVariation, MathPow2(FSub(predictedY, meanY)))]

\* Mutant of SlopeOf: the denominator reads sumYY for sumXX
SlopeOfYY(n, sm) ==
  FDiv(FSub(FMul(n, sm.sumXY), FMul(sm.sumX, sm.sumY)),
       FSub(FMul(n, sm.sumYY), FMul(sm.sumX, sm.sumX)))

\* Mutant of SlopeOf: the result drifts with the number of earlier calls
SlopeOfCounted(n, sm) ==
  FAdd(FDiv(FSub(FMul(n, sm.sumXY), FMul(sm.sumX, sm.sumY)),
            FSub(FMul(n, sm.sumXX), FMul(sm.sumX, sm.sumX))),
       FromInt(calls))

\* Mutant of SlopeOf: a zero denominator is answered with slope 0
SlopeOfGuarded(n, sm) ==
  LET den == FSub(FMul(n, sm.sumXX), FMul(sm.sumX, sm.sumX))
  IN  IF IsZero(den) THEN Zero(0)
      ELSE FDiv(FSub(FMul(n, sm.sumXY), FMul(sm.sumX, sm.sumY)), den)

\* slope = (n * sumXY - sumX * sumY) / (n * sumXX - sumX * sumX)
SlopeOf(n, sm) ==
  FDiv(FSub(FMul(n, sm.sumXY), FMul(sm.sumX, sm.sumY)),
       FSub(FMul(n, sm.sumXX), FMul(sm.sumX, sm.sumX)))

\* Mutant of InterceptOf: the division by n is missing
InterceptOfNoDiv(n, sm, slope) == FSub(sm.sumY, FMul(slope, sm.sumX))

\* intercept = (sumY - slope * sumX) / n
InterceptOf(n, sm, slope) == FDiv(FSub(sm.sumY, FMul(slope, sm.sumX)), n)

\* Mutant of MeanYOf: divides by n - 1
MeanYOfSample(n, sm) == FDiv(sm.sumY, FSub(n, FromInt(1)))

\* meanY = sumY / n
MeanYOf(n, sm) == FDiv(sm.sumY, n)

\* Mutant of RSquaredOf: the quotient is inverted
RSquaredOfInverted(v) == FDiv(v.totalVariation, v.explainedVariation)

\* rSquared = explainedVariation / totalVariation
RSquaredOf(v) == FDiv(v.explainedVariation, v.totalVariation)

\* The second loop and the returned object
RegressionResult(pts, slope, icpt, meanY) ==
  [slope |-> slope, intercept |-> icpt,
   rSquared |-> RSquaredOf(Variation(pts, slope, icpt, meanY, Len(pts)))]

RegressionLine(pts, n, sm, slope) ==
  RegressionResult(pts, slope, InterceptOf(n, sm, slope), MeanYOf(n, sm))

RegressionSums(pts, n, sm) == RegressionLine(pts, n, sm, SlopeOf(n, sm))

calculateLinearRegression(pts) ==
  RegressionSums(pts, FromInt(Len(pts)), Sums(pts, Len(pts)))

(***************************************************************************)
(* generateBestFitLine                                                     *)
(***************************************************************************)
Voltages(pts) == [i \in 1..Len(pts) |-> pts[i].voltage]

\* The returned array: for the x at each end, x * gradient + intercept
BestFitThrough(ends, g, ic) ==
  [j \in 1..2 |-> Point(ends[j], FAdd(FMul(ends[j], g), ic))]

\* Mutant of generateBestFitLine: the first and the last point of the data
\* stand for the least and the greatest x
generateBestFitLineEnds(pts, g, ic) ==
  IF g = Null \/ ic = Null THEN <<>>
  ELSE BestFitThrough(<<pts[1].voltage, pts[Len(pts)].voltage>>, g, ic)

\* Mutant of generateBestFitLine: the guard is !gradient || !intercept, which
\* also takes 0 and NaN for missing
Falsy(v) == v = Null \/ IsNaN(v) \/ IsZero(v)

generateBestFitLineFalsy(pts, g, ic) ==
  IF Falsy(g) \/ Falsy(ic) THEN <<>>
  ELSE BestFitThrough(<<MathMin(Voltages(pts)), MathMax(Voltages(pts))>>,
                      g, ic)

generateBestFitLine(pts, g, ic) ==
  IF g = Null \/ ic = Null THEN <<>>
  ELSE BestFitThrough(<<MathMin(Voltages(pts)), MathMax(Voltages(pts))>>,
                      g, ic)

(***************************************************************************)
(* The three cards below the chart.                                        *)
(***************************************************************************)
\* The placeholder "Calculating..." and the text before anything is rendered
Calculating == ToFixedText("Calculating...", 0, <<>>)

NotRendered == ToFixedText("", 0, <<>>)

NoCards ==
  [resistance |-> NotRendered, intercept |-> NotRendered,
   rSquared |-> NotRendered]

\* Mutant of ResistanceCard: the card shows the gradient, not its reciprocal
ResistanceCardGradient(g) ==
  IF g # Null THEN ToFixed(g, 2) ELSE Calculating

\* gradient !== null ? (1 / gradient).toFixed(2) : "Calculating..."
ResistanceCard(g) ==
  IF g # Null THEN ToFixed(FDiv(FromInt(1), g), 2) ELSE Calculating

\* intercept !== null ? intercept.toFixed(2) : "Calculating..."
InterceptCard(ic) == IF ic # Null THEN ToFixed(ic, 2) ELSE Calculating

\* rSquared !== null ? rSquared.toFixed(4) : "Calculating..."
RSquaredCard(r2) == IF r2 # Null THEN ToFixed(r2, 4) ELSE Calculating

Cards(g, ic, r2) ==
  [resistance |-> ResistanceCard(g), intercept |-> InterceptCard(ic),
   rSquared |-> RSquaredCard(r2)]

(***************************************************************************)
(* Inputs.  The component's own table, and every sequence of at most       *)
(* MaxLen points over a few points chosen to cover: exact fits of          *)
(* y = 2x + 1 with small and with large x, repeated x, repeated y, and     *)
(* values that are not exact binary fractions.                             *)
(***************************************************************************)
MaxLen == 3

\* 2^27 + 1: its square does not fit a significand
BigX == Pow2(27) + 1

\* The coordinates as literals <<n, k>> for n / 10^k: (0, 1), (1, 3), (1, 1),
\* (BigX, 2 * BigX + 1) and (0.3, 0.1)
PointLiterals ==
  { << <<0, 0>>, <<1, 0>> >>,
    << <<1, 0>>, <<3, 0>> >>,
    << <<1, 0>>, <<1, 0>> >>,
    << <<BigX, 0>>, <<2 * BigX + 1, 0>> >>,
    << <<3, 1>>, <<1, 1>> >> }

Points ==
  { Point(Dec(t[1][1], t[1][2]), Dec(t[2][1], t[2][2])) : t \in PointLiterals }

Inputs == UNION { [1..n -> Points] : n \in 1..MaxLen }

DataSets == Inputs \cup {TableData}

NoFit == [slope |-> Null, intercept |-> Null, rSquared |-> Null]

(***************************************************************************)
(* The component: each run of its body (Render) builds the data array,     *)
(* reads the three state hooks and calls generateBestFitLine; the effect   *)
(* declared with the dependency [data] (or with the callback memoised on   *)
(* [data]) runs after a committed render whose dependency is not the       *)
(* object of the previous commit.                                          *)
(***************************************************************************)
MaxRenders == 4

\* Mutant of Reduce: only the updates of the gradient hook are applied
RECURSIVE ReduceOnlyGradient(_, _, _)
ReduceOnlyGradient(q, hook, cur) ==
  IF q = <<>> \/ hook # "gradient" THEN cur
  ELSE IF q[Len(q)].hook = hook THEN q[Len(q)].value
  ELSE ReduceOnlyGradient(SubSeq(q, 1, Len(q) - 1), hook, cur)

\* The state of a hook after the queued updates: the last value set
RECURSIVE Reduce(_, _, _)
Reduce(q, hook, cur) ==
  IF q = <<>> THEN cur
  ELSE IF q[Len(q)].hook = hook THEN q[Len(q)].value
  ELSE Reduce(SubSeq(q, 1, Len(q) - 1), hook, cur)

\* Mutant of ObjectIs: the comparison is ===, under which NaN differs from NaN
ObjectIsStrict(a, b) == a = b /\ ~IsNaN(a)

\* Object.is, by which React compares a new state with the stored one: the
\* Numbers are kept canonical, so it is equality (NaN is NaN, +0 is not -0)
ObjectIs(a, b) == a = b

\* setGradient / setIntercept / setRSquared: nothing is queued when no update
\* is pending anywhere on the fiber and the value is the stored one (Object.is)
SetState(q, hook, cur, v) ==
  IF q = <<>> /\ ~altPending /\ ObjectIs(v, cur) THEN q
  ELSE Append(q, [hook |-> hook, value |-> v])

Init ==
  /\ data \in DataSets
  /\ gradient = Null
  /\ intercept = Null
  /\ rSquared = Null
  /\ updates = <<>>
  /\ altPending = FALSE
  /\ pc = "render"
  /\ renders = 0
  /\ dataRef = 0
  /\ effectDeps = 0
  /\ calls = 0
  /\ fit = NoFit
  /\ bestFitLine = <<>>
  /\ cards = NoCards

Render ==
  /\ pc = "render"
  /\ renders < MaxRenders
  /\ LET g       == Reduce(updates, "gradient", gradient)
         ic      == Reduce(updates, "intercept", intercept)
         r2      == Reduce(updates, "rSquared", rSquared)
         mount   == renders = 0
         commit  == \/ mount
                    \/ ~ObjectIs(g, gradient)
                    \/ ~ObjectIs(ic, intercept)
                    \/ ~ObjectIs(r2, rSquared)
         ref     == renders + 1
     IN  /\ gradient' = g
         /\ intercept' = ic
         /\ rSquared' = r2
         /\ updates' = <<>>
         /\ renders' = renders + 1
         /\ dataRef' = ref
         /\ bestFitLine' = generateBestFitLine(data, g, ic)
         /\ cards' = Cards(g, ic, r2)
         /\ effectDeps' = IF commit THEN ref ELSE effectDeps
         /\ altPending' = (commit /\ ~mount)
         /\ pc' = IF commit /\ (mount \/ ref # effectDeps)
                  THEN "effect" ELSE "idle"
  /\ UNCHANGED <<data, calls, fit>>

Effect ==
  /\ pc = "effect"
  /\ fit' = calculateLinearRegression(data)
  /\ calls' = calls + 1
  /\ LET q1 == SetState(<<>>, "gradient", gradient, fit'.slope)
         q2 == SetState(q1, "intercept", intercept, fit'.intercept)
         q3 == SetState(q2, "rSquared", rSquared, fit'.rSquared)
     IN  /\ updates' = q3
         /\ pc' = IF q3 = <<>> THEN "idle" ELSE "render"
  /\ UNCHANGED <<data, gradient, intercept, rSquared, altPending, renders,
                 dataRef, effectDeps, bestFitLine, cards>>

Next == Render \/ Effect

Spec == Init /\ [][Next]_vars

\* Work is scheduled: a render (below the bound on renders) or the effects
\* of a commit.  Render and Effect are possible exactly then.
Due == (pc = "render" /\ renders < MaxRenders) \/ pc = "effect"

\* The scheduled work is done.  Every step of Render and of Effect moves pc
\* on, so on the behaviours of Spec the steps of Scheduled are the steps of
\* Next, and Scheduled is enabled exactly when Next is.
Scheduled == Due /\ pc' \in {"render", "effect", "idle"} /\ pc' # pc

\* React runs the render it has scheduled and the effects of a commit:
\* weak fairness of the scheduled step
SpecLive == Spec /\ WF_pc(Scheduled)

(***************************************************************************)
(* The regression applied to every input: Fit calls it on the input,       *)
(* Permute exchanges two neighbours of the input and calls it again.       *)
(***************************************************************************)
MaxCalls == 2

Swap(pts, i) ==
  [j \in 1..Len(pts) |->
     IF j = i THEN pts[i + 1] ELSE IF j = i + 1 THEN pts[i] ELSE pts[j]]

InitFit ==
  /\ data \in Inputs
  /\ gradient = Null
  /\ intercept = Null
  /\ rSquared = Null
  /\ updates = <<>>
  /\ altPending = FALSE
  /\ pc = "input"
  /\ renders = 0
  /\ dataRef = 0
  /\ effectDeps = 0
  /\ calls = 0
  /\ fit = NoFit
  /\ bestFitLine = <<>>
  /\ cards = NoCards

Fit ==
  /\ pc = "input"
  /\ fit' = calculateLinearRegression(data)
  /\ calls' = calls + 1
  /\ pc' = "fitted"
  /\ UNCHANGED <<data, gradient, intercept, rSquared, updates, altPending,
                 renders, dataRef, effectDeps, bestFitLine, cards>>

Permute ==
  /\ pc = "fitted"
  /\ calls < MaxCalls
  /\ \E i \in 1..(Len(data) - 1) :
       /\ data' = Swap(data, i)
       /\ fit' = calculateLinearRegression(data')
  /\ calls' = calls + 1
  /\ UNCHANGED <<gradient, intercept, rSquared, updates, altPending, pc,
                 renders, dataRef, effectDeps, bestFitLine, cards>>

NextFit == Fit \/ Permute

SpecFit == InitFit /\ [][NextFit]_vars

(***************************************************************************)
(* Predicates on inputs and results used by the properties below.          *)
(***************************************************************************)
\* Integers below 2^ExactBits in magnitude, at most 2^5 of them: every sum
\* and product of the first loop is then an integer below 2^53, hence exact
ExactBits == 20

IsInteger(v) ==
  /\ IsFinite(v)
  /\ \/ IsZero(v)
     \/ v.e >= 0
     \/ BShl(BShr(v.m, -v.e), -v.e) = v.m

SmallInt(v) == IsInteger(v) /\ (IsZero(v) \/ BitLen(v.m) + v.e <= ExactBits)

SmallInts(pts) ==
  /\ Len(pts) <= 32
  /\ \A i \in 1..Len(pts) : SmallInt(pts[i].voltage) /\ SmallInt(pts[i].current)

AllSameX(pts) == \A i \in 1..Len(pts) : pts[i].voltage = pts[1].voltage

AllSameY(pts) == \A i \in 1..Len(pts) : pts[i].current = pts[1].current

\* The point lies on y = 2x + 1 exactly: x is an integer small enough for
\* 2x + 1 to be computed without rounding, and y is that value
OnLine(p) ==
  /\ IsInteger(p.voltage)
  /\ IsZero(p.voltage) \/ BitLen(p.voltage.m) + p.voltage.e <= 50
  /\ p.current = FAdd(FMul(FromInt(2), p.voltage), FromInt(1))

PerfectFit(pts) ==
  /\ Len(pts) >= 2
  /\ ~AllSameX(pts)
  /\ \A i \in 1..Len(pts) : OnLine(pts[i])

IsNumber(v) == v.k \in {"fin", "inf", "nan"}

Fitted == pc = "fitted"

(***************************************************************************)
(* Properties.                                                             *)
(***************************************************************************)

\* C1 (as stated): for the table of the component the slope returned by
\* calculateLinearRegression rounds to 24.59 at two decimal places.
C1_SlopeRoundsTo2459 ==
  (data = TableData /\ calls > 0) =>
     ToFixedDigits(fit.slope, 2) = [s |-> 0, n |-> BFromNat(2459)]

\* C1 (amended): for the table of the component the slope returned by
\* calculateLinearRegression rounds to 24.77 at two decimal places.
C1_SlopeRoundsTo2477 ==
  (data = TableData /\ calls > 0) =>
     /\ IsFinite(fit.slope)
     /\ ToFixedDigits(fit.slope, 2) = [s |-> 0, n |-> BFromNat(2477)]

C1_Witness == data = TableData /\ calls > 0 /\ IsFinite(fit.slope)

C3_SlopeNonFiniteIffSameX ==
  Fitted =>
     /\ ~IsFinite(fit.slope) <=> AllSameX(data)
     /\ IsNumber(fit.slope) /\ IsNumber(fit.intercept) /\ IsNumber(fit.rSquared)

\* C3 (amended): every input returns a result of three Numbers; every
\* single-point input has the slope NaN; and for inputs whose coordinates are
\* integers below 2^20 in magnitude (at most 32 points) the slope is
\* non-finite exactly when all x-values are identical.
C3_SlopeNonFiniteSmallInts ==
  Fitted =>
     /\ IsNumber(fit.slope) /\ IsNumber(fit.intercept) /\ IsNumber(fit.rSquared)
     /\ Len(data) = 1 => IsNaN(fit.slope)
     /\ SmallInts(data) => (~IsFinite(fit.slope) <=> AllSameX(data))

C3_Witness ==
  /\ Fitted
  /\ SmallInts(data)
  /\ Len(data) = 3
  /\ AllSameX(data)
  /\ ~AllSameY(data)
  /\ IsNaN(fit.slope)

\* C4: when the stored gradient and intercept are available, the segment of
\* generateBestFitLine has the least x of the data as its first x, the
\* greatest x of the data as its second x, wherever they sit in the data,
\* and each of its y is gradient * x + intercept for its own x.
C4_SegmentSpansData ==
  (renders > 0 /\ gradient # Null /\ intercept # Null) =>
     /\ Len(bestFitLine) = 2
     /\ \E i \in 1..Len(data) : data[i].voltage = bestFitLine[1].voltage
     /\ \A i \in 1..Len(data) : ~FLt(data[i].voltage, bestFitLine[1].voltage)
     /\ \E i \in 1..Len(data) : data[i].voltage = bestFitLine[2].voltage
     /\ \A i \in 1..Len(data) : ~FLt(bestFitLine[2].voltage, data[i].voltage)
     /\ \A j \in 1..2 :
          bestFitLine[j].current =
            FAdd(FMul(gradient, bestFitLine[j].voltage), intercept)

C4_Witness ==
  /\ gradient # Null
  /\ IsFinite(gradient)
  /\ Len(data) = 3
  /\ Len(bestFitLine) = 2
  /\ data[1].voltage # bestFitLine[1].voltage
  /\ data[3].voltage # bestFitLine[2].voltage

\* C5: at every render generateBestFitLine returns the empty sequence if the
\* stored gradient or the stored intercept is null, and exactly two points
\* otherwise, non-finite stored values included.
C5_EmptyOrTwoPoints ==
  renders > 0 =>
     IF gradient = Null \/ intercept = Null
     THEN bestFitLine = <<>>
     ELSE Len(bestFitLine) = 2

C5_Witness ==
  /\ renders > 1
  /\ gradient # Null
  /\ ~IsFinite(gradient)
  /\ Len(bestFitLine) = 2

\* C6 (as stated): permuting the input changes none of slope, intercept and
\* rSquared.
C6_PermutationInvariant ==
  [][(Fitted /\ Fitted') => fit' = fit]_vars

\* C6 (amended): permuting an input whose coordinates are integers below
\* 2^20 in magnitude (at most 32 points) changes neither the slope nor the
\* intercept; rSquared, and all three for other inputs, agree only up to
\* rounding.
C6_PermutationSmallInts ==
  [][(Fitted /\ Fitted' /\ SmallInts(data)) =>
        /\ fit'.slope = fit.slope
        /\ fit'.intercept = fit.intercept]_vars

C6_Witness ==
  /\ Fitted
  /\ calls >= 2
  /\ SmallInts(data)
  /\ Len(data) = 3
  /\ data[1] # data[2]
  /\ data[2] # data[3]
  /\ IsFinite(fit.slope)

\* C7: for the table of the component rSquared is below 1 and above 0.9.
C7_RSquaredNearOne ==
  (data = TableData /\ calls > 0) =>
     /\ FLt(fit.rSquared, FromInt(1))
     /\ FLt(Dec(9, 1), fit.rSquared)

C7_Witness == data = TableData /\ calls > 0 /\ IsFinite(fit.rSquared)

\* C8 (as stated): if all y-values of the input are identical, rSquared is
\* not a finite number.
C8_SameYNonFinite ==
  (Fitted /\ AllSameY(data)) => ~IsFinite(fit.rSquared)

\* C8 (amended): if all y-values of an input whose coordinates are integers
\* below 2^20 in magnitude (at most 32 points) are identical, rSquared is
\* not a finite number.
C8_SameYNonFiniteSmallInts ==
  (Fitted /\ AllSameY(data) /\ SmallInts(data)) => ~IsFinite(fit.rSquared)

C8_Witness ==
  /\ Fitted
  /\ AllSameY(data)
  /\ SmallInts(data)
  /\ ~AllSameX(data)
  /\ Len(data) = 3
  /\ ~IsFinite(fit.rSquared)

C10_InvokedOnce == calls <= 1

\* 2 * |A - B| <= H for naturals A, B, H
NearestScaled(A, B, H) ==
  IF BCmp(A, B) >= 0 THEN BCmp(BMulLimb(BSub(A, B), 2), H) <= 0
  ELSE BCmp(BMulLimb(BSub(B, A), 2), H) <= 0

\* n is an integer nearest to |a| * 10^f for a finite a: twice the distance
\* of n * 2^-e from m * 10^f is at most 2^-e (e < 0), or n is m * 10^f * 2^e
NearestDecimal(a, f, n) ==
  IF a.e >= 0 THEN n = BShl(BMul(a.m, BFromNat(Pow10(f))), a.e)
  ELSE NearestScaled(BMul(a.m, BFromNat(Pow10(f))), BShl(n, -a.e),
                     BShl(<<1>>, -a.e))

\* C11 (as stated): at every render the resistance card shows
\* "Calculating..." exactly when the stored gradient is null, and otherwise
\* 1 / gradient rounded to 2 decimal places; for the table it shows 0.04.
C11_ResistanceCard ==
  renders > 0 =>
     /\ cards.resistance = Calculating <=> gradient = Null
     /\ gradient # Null =>
          /\ cards.resistance.kind = "fixed"
          /\ IsFinite(FDiv(FromInt(1), gradient))
          /\ NearestDecimal(FDiv(FromInt(1), gradient), 2, cards.resistance.n)
     /\ (data = TableData /\ gradient # Null) =>
          cards.resistance = ToFixedText("fixed", 0, BFromNat(4))

\* C11 (amended): at every render the resistance card shows
\* "Calculating..." exactly when the stored gradient is null; otherwise it
\* shows (1 / gradient).toFixed(2): 1 / gradient rounded to 2 decimal places
\* when that is finite and below 10^21 in magnitude, and the text NaN,
\* Infinity or -Infinity, or the exponential text, when it is not (the
\* gradient is NaN, zero, or tiny); for the table it shows 0.04.
C11_ResistanceCardFinite ==
  renders > 0 =>
     /\ cards.resistance = Calculating <=> gradient = Null
     /\ gradient # Null =>
          LET r == FDiv(FromInt(1), gradient)
          IN  IF IsNaN(r) THEN cards.resistance.kind = "NaN"
              ELSE IF ~IsFinite(r)
              THEN cards.resistance.kind = "Infinity" /\ cards.resistance.s = r.s
              ELSE IF ~MagLt(r, TenTo21)
              THEN cards.resistance.kind = "toString"
              ELSE /\ cards.resistance.kind = "fixed"
                   /\ NearestDecimal(r, 2, cards.resistance.n)
     /\ (data = TableData /\ gradient # Null) =>
          cards.resistance = ToFixedText("fixed", 0, BFromNat(4))

C11_Witness ==
  /\ renders > 1
  /\ data = TableData
  /\ gradient # Null
  /\ cards.resistance = ToFixedText("fixed", 0, BFromNat(4))

\* Nothing is scheduled and the three stored values are set
Quiescent ==
  /\ pc = "idle"
  /\ updates = <<>>
  /\ gradient # Null
  /\ intercept # Null
  /\ rSquared # Null

\* C12: from mount the render / effect cycle comes to rest after finitely
\* many renders: eventually the three stored values are non-null and nothing
\* more is scheduled, for ever, although the dependency of the effect is a
\* new object at every render, and also when the computed values are NaN.
C12_ReachesQuiescence == <>[]Quiescent

C12_Witness ==
  /\ Quiescent
  /\ renders = 3
  /\ calls = 2
  /\ IsNaN(gradient)

\* The three stored values are all null, or all set
AllNull == gradient = Null /\ intercept = Null /\ rSquared = Null

AllSet == gradient # Null /\ intercept # Null /\ rSquared # Null

\* gradient !== null && intercept !== null: the Best Fit Line is in the chart
BestFitLineDrawn == gradient # Null /\ intercept # Null

\* No card shows the placeholder
NoPlaceholder ==
  /\ cards.resistance # Calculating
  /\ cards.intercept # Calculating
  /\ cards.rSquared # Calculating

\* C13: in every rendered state the stored gradient, intercept and rSquared
\* are all null, or all non-null and equal to the slope, intercept and
\* rSquared of the regression over the data; the best-fit line is drawn
\* exactly when no card shows "Calculating..."; and a stored value that is
\* non-null never returns to null.
C13_AllNullOrTheFit ==
  /\ [](renders > 0 =>
          /\ \/ AllNull
             \/ /\ AllSet
                /\ [slope |-> gradient, intercept |-> intercept,
                    rSquared |-> rSquared] = calculateLinearRegression(data)
          /\ BestFitLineDrawn <=> NoPlaceholder)
  /\ [][/\ gradient # Null => gradient' # Null
        /\ intercept # Null => intercept' # Null
        /\ rSquared # Null => rSquared' # Null]_vars

C13_Witness ==
  /\ renders = 3
  /\ AllSet
  /\ gradient = fit.slope
  /\ IsFinite(gradient)
  /\ BestFitLineDrawn
  /\ NoPlaceholder

(***************************************************************************)
(* The formulas of calculateLinearRegression in exact arithmetic: rational *)
(* numbers (-1)^s * n / d with naturals n and d > 0, zero being +0 / d.    *)
(***************************************************************************)
Q(s, n, d) == [s |-> IF n = <<>> THEN 0 ELSE s, n |-> n, d |-> d]

\* The quotient by zero: no number
QUndefined == [s |-> 0, n |-> <<>>, d |-> <<>>]

\* The value of a finite Number
QOfNumber(v) ==
  IF IsZero(v) THEN Q(0, <<>>, <<1>>)
  ELSE IF v.e >= 0 THEN Q(v.s, BShl(v.m, v.e), <<1>>)
  ELSE IF IsInteger(v) THEN Q(v.s, BShr(v.m, -v.e), <<1>>)
  ELSE Q(v.s, v.m, BShl(<<1>>, -v.e))

\* (-1)^s1 * n1 + (-1)^s2 * n2 over the denominator d
QSigned(s1, n1, s2, n2, d) ==
  IF s1 = s2 THEN Q(s1, BAdd(n1, n2), d)
  ELSE IF BCmp(n1, n2) >= 0 THEN Q(s1, BSub(n1, n2), d)
  ELSE Q(s2, BSub(n2, n1), d)

QAdd(a, b) ==
  IF a.d = b.d THEN QSigned(a.s, a.n, b.s, b.n, a.d)
  ELSE QSigned(a.s, BMul(a.n, b.d), b.s, BMul(b.n, a.d), BMul(a.d, b.d))

QNeg(a) == Q(1 - a.s, a.n, a.d)

QSub(a, b) == QAdd(a, QNeg(b))

QMul(a, b) == Q(Xor(a.s, b.s), BMul(a.n, b.n), BMul(a.d, b.d))

QDiv(a, b) ==
  IF b.n = <<>> THEN QUndefined
  ELSE Q(Xor(a.s, b.s), BMul(a.n, b.d), BMul(a.d, b.n))

\* a <= b
QLe(a, b) == QSub(b, a).s = 0

QEq(a, b) == QSub(b, a).n = <<>>

QOne == Q(0, <<1>>, <<1>>)

QZero == Q(0, <<>>, <<1>>)

\* The first loop, lines 34-40
RECURSIVE SumsExact(_, _)
SumsExact(pts, i) ==
  IF i = 0
  THEN [sumX |-> QZero, sumY |-> QZero, sumXY |-> QZero, sumXX |-> QZero]
  ELSE LET p == SumsExact(pts, i - 1)
           x == QOfNumber(pts[i].voltage)
           y == QOfNumber(pts[i].current)
       IN  [sumX  |-> QAdd(p.sumX, x),
            sumY  |-> QAdd(p.sumY, y),
            sumXY |-> QAdd(p.sumXY, QMul(x, y)),
            sumXX |-> QAdd(p.sumXX, QMul(x, x))]

SlopeOfExact(n, sm) ==
  QDiv(QSub(QMul(n, sm.sumXY), QMul(sm.sumX, sm.sumY)),
       QSub(QMul(n, sm.sumXX), QMul(sm.sumX, sm.sumX)))

InterceptOfExact(n, sm, slope) == QDiv(QSub(sm.sumY, QMul(slope, sm.sumX)), n)

MeanYOfExact(n, sm) == QDiv(sm.sumY, n)

\* The second loop, lines 50-54
RECURSIVE VariationExact(_, _, _, _, _)
VariationExact(pts, slope, icpt, meanY, i) ==
  IF i = 0
  THEN [totalVariation |-> QZero, explainedVariation |-> QZero]
  ELSE LET p  == VariationExact(pts, slope, icpt, meanY, i - 1)
           dy == QSub(QOfNumber(pts[i].current), meanY)
           dp == QSub(QAdd(QMul(slope, QOfNumber(pts[i].voltage)), icpt),
                      meanY)
       IN  [totalVariation |-> QAdd(p.totalVariation, QMul(dy, dy)),
            explainedVariation |-> QAdd(p.explainedVariation, QMul(dp, dp))]

\* Mutant of RSquaredOfExact: the quotient is inverted
RSquaredOfExactInverted(v) == QDiv(v.totalVariation, v.explainedVariation)

RSquaredOfExact(v) == QDiv(v.explainedVariation, v.totalVariation)

RegressionResultExact(pts, slope, icpt, meanY) ==
  [slope |-> slope, intercept |-> icpt,
   rSquared |->
     RSquaredOfExact(VariationExact(pts, slope, icpt, meanY, Len(pts)))]

RegressionLineExact(pts, n, sm, slope) ==
  RegressionResultExact(pts, slope, InterceptOfExact(n, sm, slope),
                        MeanYOfExact(n, sm))

calculateLinearRegressionExact(pts) ==
  RegressionLineExact(pts, Q(0, BFromNat(Len(pts)), <<1>>),
                      SumsExact(pts, Len(pts)),
                      SlopeOfExact(Q(0, BFromNat(Len(pts)), <<1>>),
                                   SumsExact(pts, Len(pts))))

\* Every point lies on the line of r, exactly
OnFittedLine(pts, r) ==
  \A i \in 1..Len(pts) :
     QEq(QAdd(QMul(r.slope, QOfNumber(pts[i].voltage)), r.intercept),
         QOfNumber(pts[i].current))

\* What C14 requires of the exact result r for the input pts
RSquaredWithinUnit(pts, r) ==
  /\ QLe(QZero, r.rSquared)
  /\ QLe(r.rSquared, QOne)
  /\ QEq(r.rSquared, QOne) => OnFittedLine(pts, r)

====
